---- MODULE Spec2Model ----
(***************************************************************************)
(* Model of the generic base repository (lib/repositories/base/            *)
(* repository.ts): a stateless facade over one mongoose Model.  The state  *)
(* is the collection behind the model, the requests the repository sends   *)
(* to the model, and the outcome of the most recent call.                  *)
(***************************************************************************)
EXTENDS Integers, Sequences, FiniteSets, TLC

\* ------------------------------------------------------------------ bounds
MaxDocs == 2      \* number of documents the engine ever assigns an identifier to
MaxLimit == 2     \* largest explicit limit argument
MaxPage == 2      \* largest explicit page argument
MaxQueryDocs == 3 \* largest collection getAll and find are run on

\* ------------------------------------------------------- program constants
GetAllDefaultLimit == 20
GetAllDefaultPage == 1
FindDefaultLimit == 10
FindDefaultPage == 0

\* --------------------------------------------------------- optional values
\* An absent (undefined) argument is None, a present one Some(v).
None == <<>>
Some(v) == <<v>>
IsSome(o) == Len(o) = 1
Val(o) == o[1]
OrDefault(o, d) == IF IsSome(o) THEN Val(o) ELSE d

\* ------------------------------------------------------------- identifiers
\* An identifier is a string, modelled as the sequence of its characters.
HexChars == {"0", "1", "2", "3", "4", "5", "6", "7", "8", "9",
             "a", "b", "c", "d", "e", "f"}
HexDigit == <<"1", "2", "3", "4", "5", "6", "7", "8", "9", "a", "b", "c", "d", "e", "f">>

\* The identifier the engine assigns to the n-th inserted document.
ObjectId(n) == [i \in 1..24 |-> IF i = 24 THEN HexDigit[n] ELSE "0"]

EmptyId == <<>>
ShortId == <<"z", "z">>
NonHexId == [i \in 1..24 |-> IF i = 24 THEN "g" ELSE "0"]
TwelveId == [i \in 1..12 |-> "z"]

\* Types.ObjectId.isValid on a string: 12 characters, or 24 hex characters.
IsValid(id) ==
    \/ Len(id) = 12
    \/ Len(id) = 24 /\ \A i \in 1..24 : id[i] \in HexChars

\* Mutant: the guard forgets the format check.
InvalidIdEmptyOnly(id) == Len(id) = 0

\* The guard of get and remove: !id || !Types.ObjectId.isValid(id)
InvalidId(id) == Len(id) = 0 \/ ~IsValid(id)

\* --------------------------------------------------------------- documents
\* A document is a function from field names to values; every stored
\* document carries the engine-assigned "_id".
EmptyObj == [f \in {} |-> 0]
Payloads == {EmptyObj, [name |-> 1], [name |-> 2, age |-> 1]}

\* Mutant: the engine stores the identifier and loses the payload.
StoredDocNoFields(data, n) == [f \in {"_id"} |-> ObjectId(n)]

\* model.create(data): the stored document is data plus a fresh identifier.
StoredDoc(data, n) ==
    [f \in DOMAIN data \cup {"_id"} |-> IF f = "_id" THEN ObjectId(n) ELSE data[f]]

\* -------------------------------------------------------------- projection
\* interface Projection {[key: string]: 1 | 0}
EmptyProj == [f \in {} |-> 0]
NameOnly == [name |-> 1]
OptProjections == {None, Some(NameOnly)}

\* Fields the engine returns for a document under a projection: all of them
\* for an absent or empty projection, the included ones (and "_id") for an
\* inclusion projection, all but the excluded ones otherwise.
ProjectedFields(doc, proj) ==
    IF DOMAIN proj = {} THEN DOMAIN doc
    ELSE IF \E f \in DOMAIN proj : proj[f] = 1
         THEN {f \in DOMAIN doc : f = "_id" \/ (f \in DOMAIN proj /\ proj[f] = 1)}
         ELSE {f \in DOMAIN doc : ~(f \in DOMAIN proj /\ proj[f] = 0)}

Project(doc, proj) == [f \in ProjectedFields(doc, proj) |-> doc[f]]

ProjectAll(docs, proj) == [i \in 1..Len(docs) |-> Project(docs[i], proj)]

\* ------------------------------------------------------------------ filter
\* A filter is an equality condition on fields; {} matches every document.
AllDocs == [f \in {} |-> 0]
NameIsOne == [name |-> 1]
Filters == {AllDocs, NameIsOne}

Matches(doc, filter) ==
    \A f \in DOMAIN filter : f \in DOMAIN doc /\ doc[f] = filter[f]

RECURSIVE SelectDocs(_, _)
SelectDocs(docs, filter) ==
    IF docs = <<>> THEN <<>>
    ELSE IF Matches(Head(docs), filter)
         THEN <<Head(docs)>> \o SelectDocs(Tail(docs), filter)
         ELSE SelectDocs(Tail(docs), filter)

\* -------------------------------------------------------------------- sort
\* interface Sort {[key: string]: 1 | -1}; one sort key is modelled.
NameDesc == [field |-> "name", dir |-> -1]
Sorts == {None, Some(NameDesc)}

\* A missing field sorts as null, below every number.
SortKey(doc, s) == IF s.field \in DOMAIN doc THEN s.dir * doc[s.field] ELSE s.dir * (-1)

RECURSIVE InsertSorted(_, _, _)
InsertSorted(d, docs, s) ==
    IF docs = <<>> THEN <<d>>
    ELSE IF SortKey(d, s) < SortKey(Head(docs), s)
         THEN <<d>> \o docs
         ELSE <<Head(docs)>> \o InsertSorted(d, Tail(docs), s)

RECURSIVE SortDocs(_, _)
SortDocs(docs, s) ==
    IF docs = <<>> THEN <<>>
    ELSE InsertSorted(docs[Len(docs)], SortDocs(SubSeq(docs, 1, Len(docs) - 1), s), s)

\* ------------------------------------------------------------------- query
\* The query object returned by model.find and changed by sort/skip/limit.
ModelFind(filter, proj) ==
    [filter |-> filter, proj |-> proj, sort |-> None, skip |-> 0, limit |-> None]
QuerySort(q, s) == [q EXCEPT !.sort = Some(s)]
QuerySkip(q, n) == [q EXCEPT !.skip = n]
QueryLimit(q, n) == [q EXCEPT !.limit = Some(n)]

Min(a, b) == IF a < b THEN a ELSE b

\* query.lean().exec(): filter, sort, skip, limit, then project.
Exec(q, docs) ==
    LET matched == SelectDocs(docs, q.filter)
        sorted == IF IsSome(q.sort) THEN SortDocs(matched, Val(q.sort)) ELSE matched
        skipped == SubSeq(sorted, q.skip + 1, Len(sorted))
        limited == IF IsSome(q.limit)
                   THEN SubSeq(skipped, 1, Min(Val(q.limit), Len(skipped)))
                   ELSE skipped
    IN ProjectAll(limited, OrDefault(q.proj, EmptyProj))

\* ------------------------------------------------------------------- state
VARIABLES
    coll,     \* the documents of the collection behind the model, in insertion order
    nextId,   \* number of the next identifier the engine assigns
    pend,     \* per caller: the removeMany call suspended between its two requests
    last      \* the most recently finished call: arguments, outcome, requests sent

vars == <<coll, nextId, pend, last>>

Callers == {"c1", "c2"}

\* Arguments the callers draw from.
IdArgs == {EmptyId, NonHexId, TwelveId} \cup {ObjectId(n) : n \in 1..MaxDocs}
MalformedIds == {EmptyId, ShortId, NonHexId}
IdListArgs == {None, Some(<<>>), Some(<<ObjectId(1)>>), Some(<<ObjectId(1), ShortId>>)}
DataArgs == {None} \cup {Some(d) : d \in Payloads}
DataListArgs == {None, Some(<<>>), Some(<<[name |-> 1]>>)}

\* The third argument of find(filter, limit, arg?: number | Projection).
NumArg(n) == [kind |-> "number", num |-> n, proj |-> EmptyProj]
ProjArg(p) == [kind |-> "projection", num |-> 0, proj |-> p]

\* getAll(limit, page, sort, projection): every explicit limit and page with
\* each sort, and the defaults with and without a projection.
GetAllArgs ==
    {<<Some(l), Some(p), s, None>> : l \in 1..MaxLimit, p \in 0..MaxPage, s \in Sorts}
    \cup {<<None, None, None, proj>> : proj \in OptProjections}

\* find(filter, limit, page, sort, projection), find(filter, limit, projection)
\* and find(filter).
FindArgs ==
    {<<f, Some(l), Some(NumArg(p)), s, None>> :
         f \in Filters, l \in 1..MaxLimit, p \in 0..MaxPage, s \in Sorts}
    \cup {<<f, Some(MaxLimit), Some(NumArg(1)), None, Some(NameOnly)>> : f \in Filters}
    \cup {<<f, Some(l), Some(ProjArg(NameOnly)), None, None>> :
              f \in Filters, l \in 1..MaxLimit}
    \cup {<<f, None, None, None, None>> : f \in Filters}

\* A request handed to the model: the method, the identifiers it carries and
\* the projection it is built with.
Request(m, ids, proj) == [m |-> m, ids |-> ids, proj |-> proj]

NoArgs == [id |-> None, ids |-> None, data |-> None, filter |-> None, limit |-> None,
           page |-> None, sort |-> None, proj |-> None]

Call(op, args, outcome, result, pre, reqs) ==
    [op |-> op, args |-> args, outcome |-> outcome, result |-> result,
     pre |-> pre, reqs |-> reqs]

Idle(c) == pend[c] = None

Init ==
    /\ coll = <<>>
    /\ nextId = 1
    /\ pend = [c \in Callers |-> None]
    /\ last = Call("none", NoArgs, "ok", <<>>, <<>>, <<>>)

\* --------------------------------------------------------------------- get
\* model.findById(id, projection).lean().exec(): the document or null.
FindById(docs, id, proj) ==
    LET hits == {i \in 1..Len(docs) : docs[i]["_id"] = id}
    IN IF hits = {} THEN None ELSE Some(Project(docs[CHOOSE i \in hits : TRUE], proj))

Get(c, id, proj) ==
    /\ Idle(c)
    /\ LET args == [NoArgs EXCEPT !.id = Some(id), !.proj = proj]
           projection == OrDefault(proj, EmptyProj)
       IN IF InvalidId(id)
          THEN last' = Call("get", args, "Invalid Id", None, coll, <<>>)
          ELSE last' = Call("get", args, "ok", FindById(coll, id, projection), coll,
                            <<Request("findById", <<id>>, Some(projection))>>)
    /\ UNCHANGED <<coll, nextId, pend>>

\* ------------------------------------------------------------------ getAll
\* Mutant: the skip counts the requested page too.
GetAllQuerySkipPage(limit, page, sort, proj) ==
    LET q0 == ModelFind(AllDocs, Some(proj))
        q1 == IF IsSome(sort) THEN QuerySort(q0, Val(sort)) ELSE q0
        q2 == IF page > 0 THEN QuerySkip(q1, limit * page) ELSE q1
    IN QueryLimit(q2, limit)

\* model.find({}, projection), then sort, skip = limit * (page - 1) when
\* page > 0, then limit.
GetAllQuery(limit, page, sort, proj) ==
    LET q0 == ModelFind(AllDocs, Some(proj))
        q1 == IF IsSome(sort) THEN QuerySort(q0, Val(sort)) ELSE q0
        q2 == IF page > 0 THEN QuerySkip(q1, limit * (page - 1)) ELSE q1
    IN QueryLimit(q2, limit)

GetAll(c, limit, page, sort, proj) ==
    /\ Idle(c)
    /\ LET args == [NoArgs EXCEPT !.limit = limit, !.sort = sort, !.proj = proj,
                                  !.page = IF IsSome(page) THEN Some(NumArg(Val(page))) ELSE None]
           q == GetAllQuery(OrDefault(limit, GetAllDefaultLimit),
                            OrDefault(page, GetAllDefaultPage),
                            sort, OrDefault(proj, EmptyProj))
       IN last' = Call("getAll", args, "ok", Exec(q, coll), coll,
                       <<Request("find", <<>>, q.proj)>>)
    /\ UNCHANGED <<coll, nextId, pend>>

\* -------------------------------------------------------------------- find
\* The comparison page > 0 of the implementation, whose page parameter holds
\* the third argument: a projection object compares as NaN, never > 0.
GreaterThanZero(arg) == arg.kind = "number" /\ arg.num > 0

\* The implementation signature find(filter, limit = 10, page = 0, sort?, projection?).
FindQuery(filter, limit, page, sort, projection) ==
    LET q0 == ModelFind(filter, projection)
        q1 == IF IsSome(sort) THEN QuerySort(q0, Val(sort)) ELSE q0
        q2 == IF GreaterThanZero(page) THEN QuerySkip(q1, limit * (page.num - 1)) ELSE q1
    IN QueryLimit(q2, limit)

\* A call through the overload (filter, limit, arg) gives no sort and no fifth
\* argument; a call with a sort or a projection parameter has a numeric page.
Find(c, filter, limit, third, sort, projection) ==
    /\ Idle(c)
    /\ (IsSome(third) /\ Val(third).kind = "projection") => (sort = None /\ projection = None)
    /\ LET args == [NoArgs EXCEPT !.filter = Some(filter), !.limit = limit, !.page = third,
                                  !.sort = sort, !.proj = projection]
           q == FindQuery(filter, OrDefault(limit, FindDefaultLimit),
                          OrDefault(third, NumArg(FindDefaultPage)), sort, projection)
       IN last' = Call("find", args, "ok", Exec(q, coll), coll,
                       <<Request("find", <<>>, q.proj)>>)
    /\ UNCHANGED <<coll, nextId, pend>>

\* ------------------------------------------------------------------ create
\* The guard of create: !data
EmptyData(data) == ~IsSome(data)

Create(c, data) ==
    /\ Idle(c)
    /\ LET args == [NoArgs EXCEPT !.data = data]
       IN IF EmptyData(data)
          THEN /\ last' = Call("create", args, "Empty object provided", None, coll, <<>>)
               /\ UNCHANGED <<coll, nextId>>
          ELSE /\ nextId <= MaxDocs
               /\ LET doc == StoredDoc(Val(data), nextId)
                  IN /\ coll' = Append(coll, doc)
                     /\ nextId' = nextId + 1
                     /\ last' = Call("create", args, "ok", Some(doc), coll,
                                     <<Request("create", <<>>, None)>>)
    /\ UNCHANGED pend

\* -------------------------------------------------------------- createMany
\* Mutant: createMany inserts the first payload instead of throwing.
CreateManyInserting(c, data) ==
    /\ Idle(c)
    /\ coll' = IF IsSome(data) /\ Len(Val(data)) > 0
               THEN Append(coll, StoredDoc(Val(data)[1], nextId))
               ELSE coll
    /\ last' = Call("createMany", [NoArgs EXCEPT !.data = data], "ok", None, coll,
                    <<Request("insertMany", <<>>, None)>>)
    /\ UNCHANGED <<nextId, pend>>

CreateMany(c, data) ==
    /\ Idle(c)
    /\ last' = Call("createMany", [NoArgs EXCEPT !.data = data],
                    "Method not implemented.", None, coll, <<>>)
    /\ UNCHANGED <<coll, nextId, pend>>

\* ------------------------------------------------------------------ remove
\* Mutant: the delete takes the first document when none matches.
RemoveByIdOrFirst(docs, id) ==
    IF \E i \in 1..Len(docs) : docs[i]["_id"] = id
    THEN SelectSeq(docs, LAMBDA d : d["_id"] # id)
    ELSE IF docs = <<>> THEN docs ELSE Tail(docs)

\* model.findByIdAndRemove(id).exec()
RemoveById(docs, id) == SelectSeq(docs, LAMBDA d : d["_id"] # id)

Remove(c, id) ==
    /\ Idle(c)
    /\ LET args == [NoArgs EXCEPT !.id = Some(id)]
       IN IF InvalidId(id)
          THEN /\ last' = Call("remove", args, "Invalid Id", None, coll, <<>>)
               /\ UNCHANGED coll
          ELSE /\ coll' = RemoveById(coll, id)
               /\ last' = Call("remove", args, "ok", None, coll,
                               <<Request("findByIdAndRemove", <<id>>, None)>>)
    /\ UNCHANGED <<nextId, pend>>

\* -------------------------------------------------------------- removeMany
\* Array.isArray(ids) && ids.length > 0
HasIds(ids) == IsSome(ids) /\ Len(Val(ids)) > 0

Elems(seq) == {seq[i] : i \in 1..Len(seq)}

\* model.deleteMany({_id: {$in: ids}}).exec()
DeleteIn(docs, ids) == SelectSeq(docs, LAMBDA d : d["_id"] \notin Elems(ids))

\* Mutant: the blanket delete removes nothing.
DeleteNone(docs) == docs

\* model.deleteMany({}).exec()
DeleteAll(docs) == <<>>

\* removeMany up to its first await: with ids, the targeted delete is sent and
\* the call suspends; without, the blanket delete is sent at once.
RemoveMany(c, ids) ==
    /\ Idle(c)
    /\ LET args == [NoArgs EXCEPT !.ids = ids]
       IN IF HasIds(ids)
          THEN /\ coll' = DeleteIn(coll, Val(ids))
               /\ pend' = [pend EXCEPT ![c] =
                     Some([args |-> args, pre |-> coll,
                           reqs |-> <<Request("deleteManyIn", Val(ids), None)>>])]
               /\ last' = Call("removeMany", args, "suspended", None, coll,
                               <<Request("deleteManyIn", Val(ids), None)>>)
          ELSE /\ coll' = DeleteAll(coll)
               /\ last' = Call("removeMany", args, "ok", None, coll,
                               <<Request("deleteManyAll", <<>>, None)>>)
               /\ UNCHANGED pend
    /\ UNCHANGED nextId

\* The model cannot cast an identifier of the $in list and rejects the
\* request: the error propagates and removeMany ends there.
RemoveManyCastError(c, ids) ==
    /\ Idle(c)
    /\ HasIds(ids)
    /\ \E i \in 1..Len(Val(ids)) : InvalidId(Val(ids)[i])
    /\ last' = Call("removeMany", [NoArgs EXCEPT !.ids = ids], "CastError", None, coll,
                    <<Request("deleteManyIn", Val(ids), None)>>)
    /\ UNCHANGED <<coll, nextId, pend>>

\* removeMany resumed after the targeted delete: the blanket delete.
RemoveManyWipe(c) ==
    /\ ~Idle(c)
    /\ LET f == Val(pend[c])
       IN /\ coll' = DeleteAll(coll)
          /\ last' = Call("removeMany", f.args, "ok", None, f.pre,
                          Append(f.reqs, Request("deleteManyAll", <<>>, None)))
    /\ pend' = [pend EXCEPT ![c] = None]
    /\ UNCHANGED nextId

\* ---------------------------------------------------------- specifications
\* The calls that write, and get, interleaved by the callers.
Next ==
    \E c \in Callers :
        \/ \E id \in IdArgs, proj \in OptProjections : Get(c, id, proj)
        \/ \E data \in DataArgs : Create(c, data)
        \/ \E data \in DataListArgs : CreateMany(c, data)
        \/ \E id \in IdArgs : Remove(c, id)
        \/ \E ids \in IdListArgs : RemoveMany(c, ids)
        \/ \E ids \in IdListArgs : RemoveManyCastError(c, ids)
        \/ RemoveManyWipe(c)

Spec == Init /\ [][Next]_vars

\* getAll and find leave the collection alone: they are run on every
\* collection that up to MaxQueryDocs calls of create build.
RECURSIVE Inserted(_)
Inserted(payloads) ==
    IF payloads = <<>> THEN <<>>
    ELSE Append(Inserted(SubSeq(payloads, 1, Len(payloads) - 1)),
                StoredDoc(payloads[Len(payloads)], Len(payloads)))

QueryInit ==
    /\ \E n \in 0..MaxQueryDocs : \E payloads \in [1..n -> Payloads] :
           coll = Inserted(payloads)
    /\ nextId = Len(coll) + 1
    /\ pend = [c \in Callers |-> None]
    /\ last = Call("none", NoArgs, "ok", <<>>, <<>>, <<>>)

QueryNext ==
    \E c \in Callers :
        \/ \E a \in GetAllArgs : GetAll(c, a[1], a[2], a[3], a[4])
        \/ \E a \in FindArgs : Find(c, a[1], a[2], a[3], a[4], a[5])

QuerySpec == QueryInit /\ [][QueryNext]_vars

\* ------------------------------------------------------------------ claims
HasDoc(docs, id) == \E i \in 1..Len(docs) : docs[i]["_id"] = id

IdArg == Val(last.args.id)

\* C1: once removeMany(ids) has completed, for absent, empty and non-empty
\* ids alike, the collection is empty: the documents named by ids and the
\* documents not named by ids are all deleted.
RemoveManyLeavesEmpty ==
    (last.op = "removeMany" /\ last.outcome = "ok") => coll = <<>>

\* removeMany([id1]) has completed on a collection that held another document.
RemoveManyLeavesEmptyWitness ==
    /\ last.op = "removeMany" /\ last.outcome = "ok"
    /\ last.args.ids = Some(<<ObjectId(1)>>)
    /\ HasDoc(last.pre, ObjectId(1))
    /\ HasDoc(last.pre, ObjectId(2))
    /\ coll = <<>>

\* C2: get and remove with an empty or malformed identifier fail with
\* 'Invalid Id', send no request to the model and leave the collection as
\* it was.
InvalidIdRejected ==
    (last.op \in {"get", "remove"} /\ IdArg \in MalformedIds) =>
        /\ last.outcome = "Invalid Id"
        /\ last.reqs = <<>>
        /\ coll = last.pre

\* remove with a malformed identifier was refused on a non-empty collection.
InvalidIdRejectedWitness ==
    /\ last.op = "remove"
    /\ IdArg = NonHexId
    /\ last.outcome = "Invalid Id"
    /\ coll # <<>>

\* C3: no request handed to the model carries an identifier that fails the
\* identifier-format validation.
NoInvalidIdReachesModel ==
    \A i \in 1..Len(last.reqs) :
        \A j \in 1..Len(last.reqs[i].ids) : last.reqs[i].ids[j] \notin MalformedIds

\* C4: create with an absent payload or with the empty object {} fails with
\* InvalidArgument and writes nothing.
EmptyPayloadRejected ==
    (last.op = "create"
        /\ (~IsSome(last.args.data) \/ DOMAIN Val(last.args.data) = {})) =>
        /\ last.outcome = "Empty object provided"
        /\ last.reqs = <<>>
        /\ coll = last.pre

\* C5: every repository call sends at most one request to the model.
AtMostOneRequest == Len(last.reqs) <= 1

\* The matching documents of a call, in the order the sort gives them.
Ordered(docs, filter, sort) ==
    LET matched == SelectDocs(docs, filter)
    IN IF IsSome(sort) THEN SortDocs(matched, Val(sort)) ELSE matched

\* The pages 1..k of getAll with a fixed limit and sort, one after another.
RECURSIVE PagesUpTo(_, _, _, _)
PagesUpTo(docs, limit, sort, k) ==
    IF k = 0 THEN <<>>
    ELSE PagesUpTo(docs, limit, sort, k - 1)
             \o Exec(GetAllQuery(limit, k, sort, EmptyProj), docs)

NumericPage == IsSome(last.args.page) => Val(last.args.page).kind = "number"

\* C6: getAll and find return the contiguous slice of the filtered, sorted
\* documents that starts at skip = limit * (page - 1) when page > 0, and at 0
\* when page <= 0, and holds at most limit documents; the pages 1, 2, ... of
\* getAll with a fixed limit and sort, put one after another, are exactly
\* the sorted collection.
PageIsSlice ==
    /\ (last.op \in {"getAll", "find"} /\ NumericPage /\ ~IsSome(last.args.proj)) =>
        LET isAll == last.op = "getAll"
            limit == OrDefault(last.args.limit,
                               IF isAll THEN GetAllDefaultLimit ELSE FindDefaultLimit)
            page == IF IsSome(last.args.page) THEN Val(last.args.page).num
                    ELSE IF isAll THEN GetAllDefaultPage ELSE FindDefaultPage
            skip == IF page > 0 THEN limit * (page - 1) ELSE 0
            all == Ordered(last.pre, OrDefault(last.args.filter, AllDocs), last.args.sort)
            rest == IF Len(all) > skip THEN Len(all) - skip ELSE 0
        IN /\ Len(last.result) = Min(limit, rest)
           /\ \A i \in 1..Len(last.result) : last.result[i] = all[skip + i]
    /\ \A l \in 1..MaxLimit, s \in Sorts :
           PagesUpTo(coll, l, s, Len(coll)) = Ordered(coll, AllDocs, s)

\* getAll(2, 2, sort) on three documents returned the one remaining document.
PageIsSliceWitness ==
    /\ last.op = "getAll"
    /\ last.args.limit = Some(2)
    /\ last.args.page = Some(NumArg(2))
    /\ IsSome(last.args.sort)
    /\ Len(last.pre) = 3
    /\ Len(last.result) = 1

\* C7: find(filter, limit, projection) builds the storage query with that
\* projection, so the returned documents expose only the projected fields,
\* and applies no skip.
FindThirdArgProjection ==
    (last.op = "find" /\ IsSome(last.args.page)
        /\ Val(last.args.page).kind = "projection") =>
        LET proj == Val(last.args.page).proj
            all == SelectDocs(last.pre, Val(last.args.filter))
            limit == Val(last.args.limit)
        IN /\ last.reqs[1].proj = Some(proj)
           /\ last.result = ProjectAll(SubSeq(all, 1, Min(limit, Len(all))), proj)

\* C8: for a well-formed identifier that matches no document, get returns
\* null without an error and remove completes without an error and leaves
\* the collection as it was; remove leaves no document with the identifier,
\* so a second remove of the same identifier changes nothing more.
AbsenceIsNotFailure ==
    /\ (last.op = "get" /\ IdArg \notin MalformedIds /\ ~HasDoc(last.pre, IdArg)) =>
           /\ last.outcome = "ok"
           /\ last.result = None
           /\ coll = last.pre
    /\ (last.op = "remove" /\ IdArg \notin MalformedIds) =>
           /\ last.outcome = "ok"
           /\ ~HasDoc(coll, IdArg)
           /\ ~HasDoc(last.pre, IdArg) => coll = last.pre

\* remove of an identifier that was deleted before, on a non-empty collection.
AbsenceIsNotFailureWitness ==
    /\ last.op = "remove"
    /\ IdArg = ObjectId(1)
    /\ ~HasDoc(last.pre, ObjectId(1))
    /\ last.pre # <<>>
    /\ last.outcome = "ok"

\* C9: createMany fails with 'Method not implemented.' for every argument,
\* sends no request to the model and leaves the collection as it was.
CreateManyNotImplemented ==
    last.op = "createMany" =>
        /\ last.outcome = "Method not implemented."
        /\ last.reqs = <<>>
        /\ coll = last.pre

\* createMany with a non-empty sequence was refused on a non-empty collection.
CreateManyNotImplementedWitness ==
    /\ last.op = "createMany"
    /\ IsSome(last.args.data)
    /\ Len(Val(last.args.data)) > 0
    /\ last.outcome = "Method not implemented."
    /\ coll # <<>>

\* C10: create with a non-empty payload inserts exactly one document: the
\* collection is the one before plus the new document, and the result has
\* the fields of the payload plus a fresh engine-assigned identifier.
CreateInsertsOne ==
    (last.op = "create" /\ IsSome(last.args.data)
        /\ DOMAIN Val(last.args.data) # {}) =>
        LET data == Val(last.args.data)
            n == Len(last.pre)
        IN /\ last.outcome = "ok"
           /\ Len(last.reqs) = 1
           /\ Len(coll) = n + 1
           /\ SubSeq(coll, 1, n) = last.pre
           /\ last.result = Some(coll[n + 1])
           /\ DOMAIN coll[n + 1] = DOMAIN data \cup {"_id"}
           /\ \A f \in DOMAIN data : coll[n + 1][f] = data[f]
           /\ ~HasDoc(last.pre, coll[n + 1]["_id"])
           /\ ~InvalidId(coll[n + 1]["_id"])

\* create({name: 2, age: 1}) on a collection that already held a document.
CreateInsertsOneWitness ==
    /\ last.op = "create"
    /\ last.outcome = "ok"
    /\ last.pre # <<>>
    /\ DOMAIN Val(last.args.data) = {"name", "age"}
    /\ Len(coll) = Len(last.pre) + 1

====
